---- MODULE Spec2Model ----
(***************************************************************************)
(* Model of the Revcontent API client (revcontent_api.py) and of the       *)
(* process entry point (main.py).                                          *)
(*                                                                         *)
(* A response is [status_code, text]; text is the raw body, a string, and  *)
(* Json(text) is what resp.json() makes of it.  An exception is a result   *)
(* with kind "raise", the Python class in exc and the message in msg.      *)
(***************************************************************************)
EXTENDS Integers, Sequences, FiniteSets, TLC

VARIABLES client_id, client_secret, access_token, sent, ret, ncalls,
          pc, campaign_id, trace, reports, saved

vars == <<client_id, client_secret, access_token, sent, ret, ncalls,
          pc, campaign_id, trace, reports, saved>>

mainVars == <<pc, campaign_id, trace, reports, saved>>

\* Bound on the number of calls a caller of the client makes in one run.
MaxCalls == 4

\* Python's None (also a JSON null) and a key that a JSON object lacks.
NONE == "<None>"
ABSENT == "<absent>"

\* Mutant of Falsy: `x is None` in place of `not x`.
IsNone(x) == x = NONE

\* `not x` for the values the token takes: None and "" are falsy.
Falsy(x) == x = NONE \/ x = ""

\* str(x), as an f-string formats a value.
Str(x) == IF x = NONE THEN "None" ELSE x

\* dict.get(key, default): the default only when the key is absent.
Get(v, default) == IF v = ABSENT THEN default ELSE v

(***************************************************************************)
(* JSON values.  Scalars are kept as their text.  A `data` / `errors`      *)
(* value is [k, items]: k is its JSON type ("absent" when the key is       *)
(* missing) and items its elements when it is a list.                      *)
(***************************************************************************)
Rec(k, id, impressions, clicks) ==
    [k |-> k, id |-> id, impressions |-> impressions, clicks |-> clicks]
EmptyRec == Rec("obj", ABSENT, ABSENT, ABSENT)
Scalar(k) == Rec(k, ABSENT, ABSENT, ABSENT)
Err(k, code, title, detail) ==
    [k |-> k, code |-> code, title |-> title, detail |-> detail]
Val(k, items) == [k |-> k, items |-> items]
NoVal == Val("absent", <<>>)

Doc(json, tok, error, descr, data, errors) ==
    [json |-> json, access_token |-> tok, error |-> error,
     error_description |-> descr, data |-> data, errors |-> errors]
Obj(tok, error, descr, data, errors) == Doc("object", tok, error, descr, data, errors)
EmptyObj == Obj(ABSENT, ABSENT, ABSENT, NoVal, NoVal)
DataObj(data) == Obj(ABSENT, ABSENT, ABSENT, data, NoVal)
ErrorsObj(errors) == Obj(ABSENT, ABSENT, ABSENT, NoVal, errors)

TokenTexts ==
    {"{\"access_token\": \"T1\"}", "{\"access_token\": \"T2\"}",
     "{\"access_token\": \"\"}", "{\"access_token\": null}"}
AuthErrorTexts ==
    {"{\"error\": \"invalid_client\", \"error_description\": \"Client authentication failed\"}",
     "{\"error\": \"invalid_client\"}"}
DataTexts ==
    {"{\"data\": null}", "{\"data\": {}}", "{\"data\": []}", "{\"data\": [{}]}",
     "{\"data\": [null]}", "{\"data\": [7]}",
     "{\"data\": [{\"id\": \"X\"}]}",
     "{\"data\": [{\"id\": \"Y\", \"clicks\": 1}, {\"id\": \"X\"}]}",
     "{\"data\": [{\"impressions\": 123, \"clicks\": 4}]}"}
ErrorsTexts ==
    {"{\"errors\": [{\"code\": 400, \"title\": \"Invalid Parameters\", \"detail\": \"Invalid campaign ID\"}]}",
     "{\"errors\": [{\"title\": \"Invalid Parameters\"}, {\"code\": 401}]}",
     "{\"errors\": []}", "{\"errors\": [null]}", "{\"errors\": \"oops\"}"}
OtherTexts == {"<html>", "[]", "{}"}

\* resp.json(): the parse of each body; "invalid" is a body json() rejects.
Json(text) ==
    CASE text = "<html>" -> Doc("invalid", ABSENT, ABSENT, ABSENT, NoVal, NoVal)
      [] text = "[]" -> Doc("array", ABSENT, ABSENT, ABSENT, NoVal, NoVal)
      [] text = "{}" -> EmptyObj
      [] text = "{\"access_token\": \"T1\"}" -> Obj("T1", ABSENT, ABSENT, NoVal, NoVal)
      [] text = "{\"access_token\": \"T2\"}" -> Obj("T2", ABSENT, ABSENT, NoVal, NoVal)
      [] text = "{\"access_token\": \"\"}" -> Obj("", ABSENT, ABSENT, NoVal, NoVal)
      [] text = "{\"access_token\": null}" -> Obj(NONE, ABSENT, ABSENT, NoVal, NoVal)
      [] text = "{\"error\": \"invalid_client\", \"error_description\": \"Client authentication failed\"}"
            -> Obj(ABSENT, "invalid_client", "Client authentication failed", NoVal, NoVal)
      [] text = "{\"error\": \"invalid_client\"}"
            -> Obj(ABSENT, "invalid_client", ABSENT, NoVal, NoVal)
      [] text = "{\"data\": null}" -> DataObj(Val("null", <<>>))
      [] text = "{\"data\": {}}" -> DataObj(Val("obj", <<>>))
      [] text = "{\"data\": []}" -> DataObj(Val("list", <<>>))
      [] text = "{\"data\": [{}]}" -> DataObj(Val("list", <<EmptyRec>>))
      [] text = "{\"data\": [null]}" -> DataObj(Val("list", <<Scalar("null")>>))
      [] text = "{\"data\": [7]}" -> DataObj(Val("list", <<Scalar("num")>>))
      [] text = "{\"data\": [{\"id\": \"X\"}]}"
            -> DataObj(Val("list", <<Rec("obj", "X", ABSENT, ABSENT)>>))
      [] text = "{\"data\": [{\"id\": \"Y\", \"clicks\": 1}, {\"id\": \"X\"}]}"
            -> DataObj(Val("list", <<Rec("obj", "Y", ABSENT, "1"),
                                     Rec("obj", "X", ABSENT, ABSENT)>>))
      [] text = "{\"data\": [{\"impressions\": 123, \"clicks\": 4}]}"
            -> DataObj(Val("list", <<Rec("obj", ABSENT, "123", "4")>>))
      [] text = "{\"errors\": [{\"code\": 400, \"title\": \"Invalid Parameters\", \"detail\": \"Invalid campaign ID\"}]}"
            -> ErrorsObj(Val("list", <<Err("obj", "400", "Invalid Parameters",
                                           "Invalid campaign ID")>>))
      [] text = "{\"errors\": [{\"title\": \"Invalid Parameters\"}, {\"code\": 401}]}"
            -> ErrorsObj(Val("list", <<Err("obj", ABSENT, "Invalid Parameters", ABSENT),
                                       Err("obj", "401", ABSENT, ABSENT)>>))
      [] text = "{\"errors\": []}" -> ErrorsObj(Val("list", <<>>))
      [] text = "{\"errors\": [null]}"
            -> ErrorsObj(Val("list", <<Err("null", ABSENT, ABSENT, ABSENT)>>))
      [] text = "{\"errors\": \"oops\"}" -> ErrorsObj(Val("str", <<>>))

Statuses == {200, 201, 204, 400, 500}

\* str(resp.status_code), as the f-strings format it.
StatusStr(s) ==
    CASE s = 200 -> "200" [] s = 201 -> "201" [] s = 204 -> "204"
      [] s = 400 -> "400" [] s = 500 -> "500"

\* The responses each endpoint is given: every status with every body that
\* the endpoint's code tells apart.
TokenResponses ==
    [status_code : Statuses, text : TokenTexts \cup AuthErrorTexts \cup OtherTexts]
ApiResponses ==
    [status_code : Statuses, text : DataTexts \cup ErrorsTexts \cup OtherTexts]

(***************************************************************************)
(* Results of a call.                                                      *)
(***************************************************************************)
Value(t, id, data) == [t |-> t, id |-> id, data |-> data]
NoneValue == Value("none", NONE, NoVal)
Result(kind, exc, msg, value) == [kind |-> kind, exc |-> exc, msg |-> msg, value |-> value]
Return(value) == Result("return", "", "", value)
Raise(exc, msg) == Result("raise", exc, msg, NoneValue)
NoResult == Result("none", "", "", NoneValue)

\* What resp.json() raises on a body that is not JSON, and what .get raises
\* on a parse that is a list.
JsonError == Raise("JSONDecodeError", "Expecting value: line 1 column 1 (char 0)")
NoGetError == Raise("AttributeError", "'list' object has no attribute 'get'")

(***************************************************************************)
(* The client: revcontent_api.py.  Each operation is a function of the     *)
(* stored token and of the response the platform gives; it yields the      *)
(* result, the requests it issued and (auth) the token it leaves stored.   *)
(***************************************************************************)
Request(method, path, authorization, arg) ==
    [method |-> method, path |-> path, authorization |-> authorization, arg |-> arg]

\* Mutant of _get_headers: the token without its "Bearer " scheme.
BareTokenHeaders(tok) ==
    [Authorization |-> Str(tok),
     ContentType |-> "application/json", CacheControl |-> "no-cache"]

_get_headers(tok) ==
    [Authorization |-> "Bearer " \o Str(tok),
     ContentType |-> "application/json", CacheControl |-> "no-cache"]

auth(tok, resp) ==
    IF resp.status_code = 200
    THEN LET j == Json(resp.text) IN
         IF j.json = "invalid" THEN [tok |-> tok, res |-> JsonError]
         ELSE IF j.json = "array" THEN [tok |-> tok, res |-> NoGetError]
         ELSE LET t == Get(j.access_token, NONE) IN
              [tok |-> t,
               res |-> IF Falsy(t)
                       THEN Raise("Exception", "Access token not found in response.")
                       ELSE Return(NoneValue)]
    ELSE IF resp.status_code = 400
    THEN LET j == Json(resp.text) IN
         IF j.json = "invalid" THEN [tok |-> tok, res |-> JsonError]
         ELSE IF j.json = "array" THEN [tok |-> tok, res |-> NoGetError]
         ELSE [tok |-> tok,
               res |-> Raise("ValueError",
                             "Authentication failed with 400 Bad Request: "
                             \o Str(Get(j.error, "unknown_error")) \o " - "
                             \o Str(Get(j.error_description, "No description provided.")))]
    ELSE [tok |-> tok,
          res |-> Raise("Exception", "Authentication failed: "
                        \o StatusStr(resp.status_code) \o " " \o resp.text)]

\* f"[{code}] {title} - {detail}" of one element of `errors`.
ErrorMessage(err) ==
    "[" \o Str(Get(err.code, "Unknown code")) \o "] "
    \o Str(Get(err.title, "Unknown title")) \o " - "
    \o Str(Get(err.detail, "No details provided"))

\* "; ".join(error_messages)
RECURSIVE JoinErrors(_)
JoinErrors(errs) ==
    IF errs = <<>> THEN ""
    ELSE IF Len(errs) = 1 THEN ErrorMessage(errs[1])
    ELSE ErrorMessage(errs[1]) \o "; " \o JoinErrors(Tail(errs))

\* The body of the try statement of _handle_api_error: every path raises.
TryBody(resp) ==
    LET j == Json(resp.text) IN
    IF j.json = "invalid" THEN JsonError
    ELSE IF j.json = "object" /\ j.errors.k = "list"
    THEN IF \E i \in 1..Len(j.errors.items) : j.errors.items[i].k # "obj"
         THEN Raise("AttributeError", "'NoneType' object has no attribute 'get'")
         ELSE Raise("ValueError", "400 Bad Request: " \o JoinErrors(j.errors.items))
    ELSE Raise("ValueError", "400 Bad Request: " \o resp.text)

\* The classes the model raises are all subclasses of Exception.
IsException(res) == res.kind = "raise"

\* Mutant of _handle_api_error: a 2xx status is not an error, it returns.
ReturnOn2xx(resp) ==
    IF resp.status_code = 400
    THEN Raise("ValueError", "400 Bad Request: " \o resp.text)
    ELSE IF resp.status_code \in 200..299
    THEN Return(NoneValue)
    ELSE Raise("Exception", "API request failed: "
               \o StatusStr(resp.status_code) \o " " \o resp.text)

_handle_api_error(resp) ==
    IF resp.status_code = 400
    THEN LET inner == TryBody(resp) IN
         IF IsException(inner)
         THEN Raise("ValueError", "400 Bad Request: " \o resp.text)
         ELSE inner
    ELSE Raise("Exception", "API request failed: "
               \o StatusStr(resp.status_code) \o " " \o resp.text)

NotAuthenticated == Raise("Exception", "Not authenticated. Call authenticate() first.")

create_campaign(tok, name, resp) ==
    IF Falsy(tok) THEN [res |-> NotAuthenticated, req |-> <<>>]
    ELSE
    [req |-> <<Request("POST", "/stats/api/v1.0/boosts/add",
                       _get_headers(tok).Authorization, name)>>,
     res |->
        IF resp.status_code = 200 \/ resp.status_code = 201
        THEN LET j == Json(resp.text) IN
             IF j.json = "invalid" THEN JsonError
             ELSE IF j.json = "array" THEN NoGetError
             ELSE LET data == j.data IN
                  IF data.k = "list" /\ data.items # <<>>
                  THEN IF data.items[1].k # "obj"
                       THEN Raise("TypeError", "argument of type '"
                                  \o (IF data.items[1].k = "null" THEN "NoneType" ELSE "int")
                                  \o "' is not iterable")
                       ELSE IF data.items[1].id # ABSENT
                       THEN Return(Value("id", data.items[1].id, NoVal))
                       ELSE Raise("Exception",
                                  "Create campaign response does not contain campaign ID.")
                  ELSE Raise("Exception",
                             "Create campaign response does not contain campaign ID.")
        ELSE LET h == _handle_api_error(resp) IN
             IF h.kind = "raise" THEN h ELSE Return(NoneValue)]

\* Mutant of HasData: `if data` in place of `if data is not None`.
Truthy(data) ==
    /\ data.k \notin {"absent", "null"}
    /\ ~(data.k \in {"list", "obj"} /\ data.items = <<>>)

\* data is not None, for data = resp.json().get('data')
HasData(data) == data.k # "absent" /\ data.k # "null"

get_campaign_stats_by_id(tok, id, resp) ==
    IF Falsy(tok) THEN [res |-> NotAuthenticated, req |-> <<>>]
    ELSE
    [req |-> <<Request("GET", "/stats/api/v1.0/boosts/performance",
                       _get_headers(tok).Authorization, id)>>,
     res |->
        IF resp.status_code = 200
        THEN LET j == Json(resp.text) IN
             IF j.json = "invalid" THEN JsonError
             ELSE IF j.json = "array" THEN NoGetError
             ELSE LET data == j.data IN
                  IF HasData(data)
                  THEN Return(Value("data", NONE, data))
                  ELSE Raise("Exception", "Response JSON does not contain \"data\" key.")
        ELSE LET h == _handle_api_error(resp) IN
             IF h.kind = "raise" THEN h ELSE Return(NoneValue)]

(***************************************************************************)
(* A caller of the client: any sequence of at most MaxCalls calls, each    *)
(* answered by any response.                                               *)
(***************************************************************************)
Credentials == {<<"id", "secret">>, <<"bad", "bad">>}
CampaignName == "test"
CampaignIds == {"X"}

\* The last call made: the operation, the token stored when it was made, the
\* response it received (NoResponse when it issued no request) and its result.
NoResponse == [status_code |-> 0, text |-> ""]
Call(op, before, resp, res) == [op |-> op, before |-> before, resp |-> resp, res |-> res]
Received(req, resp) == IF req = <<>> THEN NoResponse ELSE resp

Init ==
    /\ \E c \in Credentials : client_id = c[1] /\ client_secret = c[2]
    /\ access_token = NONE
    /\ sent = <<>>
    /\ ret = Call("none", NONE, NoResponse, NoResult)
    /\ ncalls = 0
    /\ pc = "caller"
    /\ campaign_id = NONE
    /\ trace = <<>>
    /\ reports = <<>>
    /\ saved = <<>>

Auth ==
    /\ ncalls < MaxCalls
    /\ \E resp \in TokenResponses :
         LET a == auth(access_token, resp) IN
         /\ access_token' = a.tok
         /\ sent' = Append(sent, Request("POST", "/oauth/token", ABSENT, client_id))
         /\ ret' = Call("auth", access_token, resp, a.res)
    /\ ncalls' = ncalls + 1
    /\ UNCHANGED <<client_id, client_secret, mainVars>>

CreateCampaign ==
    /\ ncalls < MaxCalls
    /\ \E resp \in ApiResponses :
         LET c == create_campaign(access_token, CampaignName, resp) IN
         /\ sent' = sent \o c.req
         /\ ret' = Call("create_campaign", access_token, Received(c.req, resp), c.res)
    /\ ncalls' = ncalls + 1
    /\ UNCHANGED <<client_id, client_secret, access_token, mainVars>>

GetCampaignStats ==
    /\ ncalls < MaxCalls
    /\ \E id \in CampaignIds, resp \in ApiResponses :
         LET g == get_campaign_stats_by_id(access_token, id, resp) IN
         /\ sent' = sent \o g.req
         /\ ret' = Call("get_campaign_stats_by_id", access_token, Received(g.req, resp), g.res)
    /\ ncalls' = ncalls + 1
    /\ UNCHANGED <<client_id, client_secret, access_token, mainVars>>

Next == Auth \/ CreateCampaign \/ GetCampaignStats

Spec == Init /\ [][Next]_vars

(***************************************************************************)
(* The process entry point: main.py.  pc is the statement main() is at;    *)
(* trace lists the steps main() has attempted and whether each succeeded,  *)
(* reports what it logged with logger.exception / logger.warning, saved    *)
(* the calls of save_stats_to_json.                                        *)
(***************************************************************************)
Step(op, ok) == [op |-> op, ok |-> ok]
Report(level, what, detail) == [level |-> level, what |-> what, detail |-> detail]
Saved(stats, id, written) == [stats |-> stats, campaign_id |-> id, written |-> written]

MainInit ==
    /\ client_id = "mock_client_id"
    /\ client_secret = "mock_client_secret"
    /\ access_token = NONE
    /\ sent = <<>>
    /\ ret = Call("none", NONE, NoResponse, NoResult)
    /\ ncalls = 0
    /\ pc = "auth"
    /\ campaign_id = NONE
    /\ trace = <<>>
    /\ reports = <<>>
    /\ saved = <<>>

\* Mutant of StatsData: the last record in place of the first.
LastStatsData(stats) ==
    IF stats.k = "list" /\ stats.items # <<>> THEN stats.items[Len(stats.items)]
    ELSE IF stats.k = "obj" THEN EmptyRec
    ELSE Scalar(stats.k)

\* stats[0] if isinstance(stats, list) and stats else stats
StatsData(stats) ==
    IF stats.k = "list" /\ stats.items # <<>> THEN stats.items[1]
    ELSE IF stats.k = "obj" THEN EmptyRec
    ELSE Scalar(stats.k)

\* Mutant of AfterStep: a handler without its `return`.
ContinueAfterStep(res, next) == next

\* Where main() goes after a step of the given result.
AfterStep(res, next) == IF res.kind = "raise" THEN "done" ELSE next

MainAuth ==
    /\ pc = "auth"
    /\ \E resp \in TokenResponses :
         LET a == auth(access_token, resp) IN
         /\ access_token' = a.tok
         /\ sent' = Append(sent, Request("POST", "/oauth/token", ABSENT, client_id))
         /\ ret' = Call("auth", access_token, resp, a.res)
         /\ trace' = Append(trace, Step("auth", a.res.kind # "raise"))
         /\ reports' = IF a.res.kind = "raise"
                       THEN Append(reports, Report("exception",
                                       "Authentication error", a.res.msg))
                       ELSE reports
         /\ pc' = AfterStep(a.res, "create")
    /\ UNCHANGED <<client_id, client_secret, ncalls, campaign_id, saved>>

MainCreate ==
    /\ pc = "create"
    /\ \E resp \in ApiResponses :
         LET c == create_campaign(access_token, "Test Campaign - YourName", resp) IN
         /\ sent' = sent \o c.req
         /\ ret' = Call("create_campaign", access_token, Received(c.req, resp), c.res)
         /\ trace' = Append(trace, Step("create_campaign", c.res.kind # "raise"))
         /\ campaign_id' = IF c.res.kind = "raise" THEN campaign_id ELSE c.res.value.id
         /\ reports' = IF c.res.kind = "raise"
                       THEN Append(reports, Report("exception",
                                       "Create campaign error", c.res.msg))
                       ELSE reports
         /\ pc' = AfterStep(c.res, "stats")
    /\ UNCHANGED <<client_id, client_secret, access_token, ncalls, saved>>

MainStats ==
    /\ pc = "stats"
    /\ \E resp \in ApiResponses :
         LET g == get_campaign_stats_by_id(access_token, campaign_id, resp) IN
         /\ sent' = sent \o g.req
         /\ ret' = Call("get_campaign_stats_by_id", access_token, Received(g.req, resp), g.res)
         /\ trace' = Append(trace, Step("get_campaign_stats_by_id", g.res.kind # "raise"))
         /\ reports' = IF g.res.kind = "raise"
                       THEN Append(reports, Report("exception", "Stats error", g.res.msg))
                       ELSE IF g.res.value.t = "none"
                       THEN Append(reports, Report("warning", "No stats returned for campaign.", ""))
                       ELSE reports
         /\ pc' = IF g.res.kind = "return" /\ g.res.value.t = "none"
                  THEN "done" ELSE AfterStep(g.res, "save")
    /\ UNCHANGED <<client_id, client_secret, access_token, ncalls, campaign_id, saved>>

\* The rest of the try block once stats is not None: the summary is printed
\* with stats_data.get, then the record is written; written is whether the
\* file could be written.
MainSave ==
    /\ pc = "save"
    /\ LET stats_data == StatsData(ret.res.value.data) IN
       IF stats_data.k # "obj"
       THEN /\ reports' = Append(reports, Report("exception", "Stats error",
                              "object has no attribute 'get'"))
            /\ UNCHANGED <<trace, saved>>
       ELSE \E written \in BOOLEAN :
            /\ saved' = Append(saved, Saved(stats_data, campaign_id, written))
            /\ trace' = Append(trace, Step("save_stats_to_json", written))
            /\ reports' = IF written THEN reports
                          ELSE Append(reports, Report("exception", "Stats error",
                                          "cannot write the file"))
    /\ pc' = "done"
    /\ UNCHANGED <<client_id, client_secret, access_token, sent, ret, ncalls, campaign_id>>

MainNext == MainAuth \/ MainCreate \/ MainStats \/ MainSave

MainSpec == MainInit /\ [][MainNext]_vars

(***************************************************************************)
(* The claims.  Those about the client are checked under Spec, those about *)
(* the entry point under MainSpec.                                         *)
(***************************************************************************)
ApiOps == {"create_campaign", "get_campaign_stats_by_id"}
Unset == {NONE, ""}
NotAuthenticatedMessage == "Not authenticated. Call authenticate() first."

\* C1: a create_campaign or get_campaign_stats_by_id call made while the
\* stored token is None or "" raises the not-authenticated exception, issues
\* no request and leaves the token and the credentials as they were.
C1_UnauthenticatedCallRejected ==
    [][(/\ access_token \in Unset
        /\ ncalls' = ncalls + 1
        /\ ret'.op \in ApiOps)
       => /\ ret'.res.kind = "raise"
          /\ ret'.res.exc = "Exception"
          /\ ret'.res.msg = NotAuthenticatedMessage
          /\ sent' = sent
          /\ access_token' = access_token
          /\ client_id' = client_id
          /\ client_secret' = client_secret]_vars

\* C1 witness: a stats call rejected on a client whose stored token is "".
C1_Witness ==
    /\ ret.op = "get_campaign_stats_by_id"
    /\ ret.before = ""
    /\ ret.res.msg = NotAuthenticatedMessage
    /\ ret.resp = NoResponse

\* C2: an auth call that raises leaves the stored token as it was before the
\* call (an unset token stays unset, a stored token stays the same token).
C2_FailedAuthKeepsToken ==
    (ret.op = "auth" /\ ret.res.kind = "raise")
    => \/ access_token = ret.before
       \/ (access_token \in Unset /\ ret.before \in Unset)

\* The message the classifier is said to give for a 400 response.
C3_Expected(resp) ==
    LET j == Json(resp.text) IN
    IF j.json = "object" /\ j.errors.k = "list"
    THEN "400 Bad Request: " \o JoinErrors(j.errors.items)
    ELSE "400 Bad Request: " \o resp.text

\* C3: a 400 response to create_campaign or get_campaign_stats_by_id raises
\* ValueError with "400 Bad Request: " followed by the joined per-element
\* messages when `errors` is a list (of mappings), by the raw body otherwise.
C3_StructuredBadRequest ==
    (/\ ret.op \in ApiOps
     /\ ret.resp.status_code = 400
     /\ LET j == Json(ret.resp.text) IN
        \A i \in 1..Len(j.errors.items) : j.errors.items[i].k = "obj")
    => /\ ret.res.kind = "raise"
       /\ ret.res.exc = "ValueError"
       /\ ret.res.msg = C3_Expected(ret.resp)

\* The non-empty access_token of a body, ABSENT when there is none.
C5_Token(text) ==
    LET j == Json(text) IN
    IF j.json = "object" /\ j.access_token \notin {ABSENT, NONE, ""}
    THEN j.access_token ELSE ABSENT

\* What C5 says of the last call, an auth call.
C5_Outcome ==
    LET s == ret.resp.status_code
        j == Json(ret.resp.text)
    IN IF s = 200
       THEN IF C5_Token(ret.resp.text) # ABSENT
            THEN ret.res.kind = "return" /\ access_token = C5_Token(ret.resp.text)
            ELSE /\ ret.res.kind = "raise"
                 /\ ret.res.exc = "Exception"
                 /\ ret.res.msg = "Access token not found in response."
       ELSE IF s = 400
       THEN /\ ret.res.kind = "raise"
            /\ ret.res.exc = "ValueError"
            /\ ret.res.msg = "Authentication failed with 400 Bad Request: "
                             \o Str(Get(j.error, "unknown_error")) \o " - "
                             \o Str(Get(j.error_description, "No description provided."))
       ELSE /\ ret.res.kind = "raise"
            /\ ret.res.exc = "Exception"
            /\ ret.res.msg = "Authentication failed: " \o StatusStr(s) \o " " \o ret.resp.text

\* C5: the outcome of auth for every status and body: 200 with a non-empty
\* access_token stores it and returns; 200 without one raises "Access token
\* not found in response."; 400 raises ValueError with the body's error and
\* error_description, defaulted when absent; any other status raises with the
\* status code and the raw body.
C5_AuthOutcome == ret.op = "auth" => C5_Outcome

\* C5 on the bodies auth can read: the same outcome holds whenever the body
\* of a 200 or 400 response is a JSON object.
C5_AuthOutcomeOnObjects ==
    (/\ ret.op = "auth"
     /\ ret.resp.status_code \in {200, 400} => Json(ret.resp.text).json = "object")
    => C5_Outcome

\* What C6 says of the last call, a create_campaign call.
C6_Outcome ==
    LET j == Json(ret.resp.text) IN
    IF /\ j.json = "object"
       /\ j.data.k = "list"
       /\ j.data.items # <<>>
       /\ j.data.items[1].k = "obj"
       /\ j.data.items[1].id # ABSENT
    THEN /\ ret.res.kind = "return"
         /\ ret.res.value.t = "id"
         /\ ret.res.value.id = j.data.items[1].id
    ELSE /\ ret.res.kind = "raise"
         /\ ret.res.exc = "Exception"
         /\ ret.res.msg = "Create campaign response does not contain campaign ID."

\* C6: with status 200 or 201, create_campaign returns the id of the first
\* element of `data` when data is a non-empty list whose first element has an
\* id, and in every other case raises "... does not contain campaign ID.".
C6_CreateOutcome ==
    (ret.op = "create_campaign" /\ ret.resp.status_code \in {200, 201}) => C6_Outcome

\* C6 on the bodies create_campaign can read: the same outcome holds whenever
\* the body is a JSON object and the first element of a `data` list is a
\* mapping.
C6_CreateOutcomeOnRecords ==
    (/\ ret.op = "create_campaign"
     /\ ret.resp.status_code \in {200, 201}
     /\ LET j == Json(ret.resp.text) IN
        /\ j.json = "object"
        /\ (j.data.k = "list" /\ j.data.items # <<>>) => j.data.items[1].k = "obj")
    => C6_Outcome

C7_NoDataMessage == "Response JSON does not contain \"data\" key."

C8_BearerOfStoredToken ==
    /\ \A i \in 1..Len(sent) :
         sent[i].path # "/oauth/token"
         => sent[i].authorization \in {"Bearer T1", "Bearer T2"}
    /\ ret.op \in ApiOps =>
         IF ret.before \in Unset
         THEN ret.resp = NoResponse
         ELSE /\ ret.resp # NoResponse
              /\ sent # <<>>
              /\ sent[Len(sent)].authorization = "Bearer " \o ret.before

\* C8 witness: a request with T1, a new auth storing T2, then a request
\* carrying T2.
C8_Witness ==
    /\ Len(sent) = 4
    /\ sent[2].authorization = "Bearer T1"
    /\ sent[3].path = "/oauth/token"
    /\ sent[4].authorization = "Bearer T2"
    /\ access_token = "T2"

\* C9: a request of create_campaign answered by a status other than 200/201,
\* or of get_campaign_stats_by_id by one other than 200, never returns: it
\* raises ValueError on 400 and otherwise the request-failed exception with
\* the status code and the raw body.
C9_ErrorStatusRaises ==
    (\/ (ret.op = "create_campaign" /\ ret.resp.status_code \notin {0, 200, 201})
     \/ (ret.op = "get_campaign_stats_by_id" /\ ret.resp.status_code \notin {0, 200}))
    => /\ ret.res.kind = "raise"
       /\ IF ret.resp.status_code = 400
          THEN ret.res.exc = "ValueError"
          ELSE /\ ret.res.exc = "Exception"
               /\ ret.res.msg = "API request failed: "
                                \o StatusStr(ret.resp.status_code) \o " " \o ret.resp.text

\* C9 witness: get_campaign_stats_by_id answered 201 has raised.
C9_Witness ==
    /\ ret.op = "get_campaign_stats_by_id"
    /\ ret.resp.status_code = 201
    /\ ret.res.kind = "raise"

MainOrder ==
    <<"auth", "create_campaign", "get_campaign_stats_by_id", "save_stats_to_json">>

\* C4: main() attempts auth, create_campaign, get_campaign_stats_by_id and
\* the save in this order, each at most once; a step is attempted only if
\* every earlier one succeeded; a failure ends main() at once with exactly
\* one logged exception, and nothing is saved after a failed step; until
\* main() has ended its next step can always be taken.
C4_StopsAtFirstFailure ==
    /\ pc = "done" \/ ENABLED MainNext
    /\ Len(trace) <= Len(MainOrder)
    /\ \A i \in 1..Len(trace) : trace[i].op = MainOrder[i]
    /\ \A i \in 1..(Len(trace) - 1) : trace[i].ok
    /\ Len(sent) <= 3
    /\ (\E i \in 1..Len(trace) : ~trace[i].ok)
         => /\ pc = "done"
            /\ Len(reports) = 1
            /\ reports[1].level = "exception"
    /\ (\E i \in 1..3 : i <= Len(trace) /\ ~trace[i].ok) => saved = <<>>
    /\ pc = "done" => (reports = <<>> <=> (Len(trace) = 4 /\ trace[4].ok))

\* C4 witness: create_campaign failed after a successful auth and main()
\* has ended without fetching statistics.
C4_Witness ==
    /\ pc = "done"
    /\ Len(trace) = 2
    /\ trace[1].ok
    /\ ~trace[2].ok
    /\ reports[1].what = "Create campaign error"

\* The three calls of main() have succeeded.
C10_AllSucceeded ==
    /\ Len(trace) >= 3
    /\ \A i \in 1..3 : trace[i].ok

\* The statistics returned are a list of records.
C10_ListOfRecords(stats) ==
    /\ stats.k = "list"
    /\ \A i \in 1..Len(stats.items) : stats.items[i].k = "obj"

\* C10: when the three calls of main() succeed and the statistics are a list
\* of records, save_stats_to_json is called exactly once, with the first
\* record, iff the list is non-empty; with the empty list nothing is saved
\* and main() ends on a logged "Stats error"; the warning "No stats returned"
\* is never logged.
C10_SavesFirstRecordOnly ==
    /\ \A i \in 1..Len(reports) : reports[i].level # "warning"
    /\ (pc = "done" /\ C10_AllSucceeded /\ C10_ListOfRecords(ret.res.value.data))
       => LET stats == ret.res.value.data IN
          IF stats.items # <<>>
          THEN /\ Len(saved) = 1
               /\ saved[1].stats = stats.items[1]
               /\ saved[1].campaign_id = campaign_id
          ELSE /\ saved = <<>>
               /\ Len(reports) = 1
               /\ reports[1].level = "exception"
               /\ reports[1].what = "Stats error"

\* C10 witness: statistics of two records, the first one saved.
C10_Witness ==
    /\ pc = "done"
    /\ C10_AllSucceeded
    /\ Len(ret.res.value.data.items) = 2
    /\ Len(saved) = 1
    /\ saved[1].stats = ret.res.value.data.items[1]

====
